---- MODULE Spec2Model ----
(***************************************************************************)
(* dag_servier: the Airflow DAG of dags/dag.py and the three operators of  *)
(* dags/custom_operator/custom_operator.py (bronze push, silver            *)
(* validation, gold reconciliation).                                       *)
(*                                                                         *)
(* The helpers of app.utils.utils (read_file, save_file, gcs_handler_blob, *)
(* reconciliation_data) are not among the source files; they are modelled  *)
(* from the specification's sections 3, 4 and 7.                           *)
(***************************************************************************)
EXTENDS Naturals, Sequences, FiniteSets

VARIABLES
    task,               \* task_id -> Airflow task instance state
    pc,                 \* silver task (by source file) -> next statement of execute
    valid_items,        \* silver task -> valid_items of execute
    invalid_items,      \* silver task -> invalid_items of execute
    fs,                 \* local file system: the directories and the files present
    gcs,                \* [bucket, name] -> data of the blobs pushed
    gpc,                \* gold task: next statement of execute
    drug_valid_items,               \* locals of PreprossecingGoldData.execute
    pubmed_json_valid_items,
    pubmed_csv_valid_items,
    clinical_trials_valid_items,
    pubmed_valid,
    n_jobs,             \* Parallel: degree of parallelism
    dispatched,         \* Parallel: number of jobs handed to workers so far
    completed,          \* Parallel: [index, result] of finished jobs, in completion order
    drugs_reconciliated

vars == <<task, pc, valid_items, invalid_items, fs, gcs, gpc,
          drug_valid_items, pubmed_json_valid_items, pubmed_csv_valid_items,
          clinical_trials_valid_items, pubmed_valid, n_jobs, dispatched,
          completed, drugs_reconciliated>>

silver_vars == <<pc, valid_items, invalid_items>>
gold_vars == <<gpc, drug_valid_items, pubmed_json_valid_items, pubmed_csv_valid_items,
               clinical_trials_valid_items, pubmed_valid, n_jobs, dispatched,
               completed, drugs_reconciliated>>

(***************************************************************************)
(* Bounds                                                                  *)
(***************************************************************************)
\* longest record sequence of the source file a silver run is drawn for
MaxRecords == 2
\* most drug records of drugs.csv in a gold run
MaxDrugs == 2
\* most mention records of the three mention files together in a gold run
MaxMentions == 2
\* largest degree of parallelism the per-drug map is run with
MaxJobs == 2

\* Parallel(n_jobs=1)
N_JOBS == 1

(***************************************************************************)
(* Sequences                                                               *)
(***************************************************************************)
Range(s) == {s[i] : i \in 1..Len(s)}

SeqsUpTo(S, n) == UNION {[1..k -> S] : k \in 0..n}

RECURSIVE Select(_, _, _)
\* the elements of s at the positions of P, in the order of s, from position i on
Select(s, P, i) ==
    IF i > Len(s) THEN <<>>
    ELSE (IF i \in P THEN <<s[i]>> ELSE <<>>) \o Select(s, P, i + 1)

(***************************************************************************)
(* dag.py: the source files, the tasks and their wiring                    *)
(***************************************************************************)
\* a pathlib.Path: parent directory, stem and extension (name = stem.ext)
Path(parent, stem, ext) == [parent |-> parent, stem |-> stem, ext |-> ext]

Name(p) == p.stem \o "." \o p.ext

path_file_clinical_trials == Path("file", "clinical_trials", "csv")
path_drugs == Path("file", "drugs", "csv")
path_file_pubmed_csv == Path("file", "pubmed", "csv")
path_file_pubmed_json == Path("file", "pubmed", "json")

all_paths_local ==
    {path_file_clinical_trials, path_drugs, path_file_pubmed_csv, path_file_pubmed_json}

\* f"..._{path_local_file.name}".replace(".", "_")
BronzeTaskId(p) == "push_raw_data_to_gcs_" \o p.stem \o "_" \o p.ext
SilverTaskId(p) == "push_silver_data_to_gcs_" \o p.stem \o "_" \o p.ext
GoldTaskId == "push_gold_data_to_gcs_reconcialted_data"
StartTaskId == "start_point"
EndTaskId == "end_point"

TaskIds ==
    {StartTaskId, EndTaskId, GoldTaskId}
        \cup {BronzeTaskId(p) : p \in all_paths_local}
        \cup {SilverTaskId(p) : p \in all_paths_local}

\* the wiring with the gold task chained after one silver task only
UpstreamOfOneSilver(t) ==
    IF t = StartTaskId THEN {}
    ELSE IF t \in {BronzeTaskId(p) : p \in all_paths_local} THEN {StartTaskId}
    ELSE IF t \in {SilverTaskId(p) : p \in all_paths_local}
         THEN {BronzeTaskId(p) : p \in {q \in all_paths_local : SilverTaskId(q) = t}}
    ELSE IF t = GoldTaskId THEN {SilverTaskId(path_file_pubmed_json)}
    ELSE {GoldTaskId}

\* start_point >> bronze >> silver >> gold >> end_point, once per source file
Upstream(t) ==
    IF t = StartTaskId THEN {}
    ELSE IF t \in {BronzeTaskId(p) : p \in all_paths_local} THEN {StartTaskId}
    ELSE IF t \in {SilverTaskId(p) : p \in all_paths_local}
         THEN {BronzeTaskId(p) : p \in {q \in all_paths_local : SilverTaskId(q) = t}}
    ELSE IF t = GoldTaskId THEN {SilverTaskId(p) : p \in all_paths_local}
    ELSE {GoldTaskId}

BronzeBucket == "servier-bronze"
SilverBucket == "servier-silver"
GoldBucket == "servier-gold"

\* gcs_file_name of the bronze task
BronzeGcsFileName(p) == p.stem \o "/" \o Name(p)

(***************************************************************************)
(* Records                                                                 *)
(***************************************************************************)
\* a field of a raw record: a text (a sequence of characters), a value of
\* another primitive type, or no such key
Str(v) == [kind |-> "str", val |-> v]
WrongType == [kind |-> "int"]
Missing == [kind |-> "missing"]

\* a raw row that is not record-shaped
NotARecord == [scalar |-> Str(<<"x">>)]

DrugRow(id, name) == [id |-> id, name |-> name]
MentionRow(id, title, journal, date) ==
    [id |-> id, title |-> title, journal |-> journal, date |-> date]

\* what a source file holds: rows, or a structure that cannot be parsed
Rows(rs) == [parseable |-> TRUE, rows |-> rs]
Malformed == [parseable |-> FALSE, rows |-> <<>>]

(***************************************************************************)
(* app.utils.utils, from the specification                                 *)
(***************************************************************************)
\* section 6: the fields a schema kind requires
RequiredFields(type_of_schema) ==
    IF type_of_schema = "drugs" THEN {"id", "name"}
    ELSE {"id", "title", "journal", "date"}

\* sections 4.1 and 4.3: a required field fails when its key is missing, its
\* type is wrong, or it is an empty identifier (the id, or a drug's name)
FieldOk(row, f) ==
    /\ f \in DOMAIN row
    /\ row[f].kind = "str"
    /\ (f \in {"id", "name"} => row[f].val # <<>>)

IsValid(row, type_of_schema) ==
    \A f \in RequiredFields(type_of_schema) : FieldOk(row, f)

\* the typed record of a valid row
Typed(row, type_of_schema) ==
    [f \in RequiredFields(type_of_schema) |-> row[f].val]

\* an element of a partition: the row (typed when valid) and, as its identity,
\* its position in the input
Item(i, r) == [pos |-> i, rec |-> r]

RECURSIVE validate(_, _, _, _)
\* section 4.1: each row, in input order, goes to valid or to invalid
validate(rows, type_of_schema, i, acc) ==
    IF i > Len(rows) THEN acc
    ELSE validate(rows, type_of_schema, i + 1,
            IF IsValid(rows[i], type_of_schema)
            THEN [acc EXCEPT !.valid = Append(@, Item(i, Typed(rows[i], type_of_schema)))]
            ELSE [acc EXCEPT !.invalid = Append(@, Item(i, rows[i]))])

\* sections 4.1 and 7: (valid, invalid) of a file, or the fault raised when the
\* file is absent or cannot be parsed
read_file(disk, file_path, type_of_schema) ==
    IF file_path \notin DOMAIN disk.files
    THEN [raised |-> TRUE, valid |-> <<>>, invalid |-> <<>>]
    ELSE LET content == disk.files[file_path] IN
    IF ~content.parseable
    THEN [raised |-> TRUE, valid |-> <<>>, invalid |-> <<>>]
    ELSE LET v == validate(content.rows, type_of_schema, 1,
                           [valid |-> <<>>, invalid |-> <<>>])
         IN  [raised |-> FALSE, valid |-> v.valid, invalid |-> v.invalid]

\* the local file system after save_file(data, file_path): the file is written,
\* its directory created when absent
save_file(disk, data, file_path) ==
    [dirs |-> disk.dirs \cup {file_path.parent},
     files |-> [q \in DOMAIN disk.files \cup {file_path} |->
                    IF q = file_path THEN data ELSE disk.files[q]]]

\* gcs_handler_blob(type_of_operation="push", ...): the upload raises when the
\* local file is absent, and otherwise writes (or overwrites) the blob
gcs_handler_blob(store, disk, bucket_name, local_file_name, gcs_file_name) ==
    IF local_file_name \notin DOMAIN disk.files
    THEN [raised |-> TRUE, gcs |-> store]
    ELSE [raised |-> FALSE,
          gcs |-> LET key == [bucket |-> bucket_name, name |-> gcs_file_name]
                  IN  [k \in DOMAIN store \cup {key} |->
                          IF k = key THEN disk.files[local_file_name] ELSE store[k]]]

\* shutil.rmtree(path): raises FileNotFoundError when the directory is absent,
\* and otherwise removes it with every file in it
rmtree(disk, path) ==
    IF path \notin disk.dirs
    THEN [raised |-> TRUE, fs |-> disk]
    ELSE [raised |-> FALSE,
          fs |-> [dirs |-> disk.dirs \ {path},
                  files |-> [q \in {r \in DOMAIN disk.files : r.parent # path} |->
                                disk.files[q]]]]

(***************************************************************************)
(* reconciliation_data, from the specification's section 4.3               *)
(***************************************************************************)
\* str.lower() over the alphabet of the titles
LowerChar(c) == IF c = "A" THEN "a" ELSE IF c = "B" THEN "b" ELSE c

Lower(text) == [i \in 1..Len(text) |-> LowerChar(text[i])]

RECURSIVE FindFrom(_, _, _)
\* does needle occur in text at position k or later (Python's `needle in text`)
FindFrom(needle, text, k) ==
    IF k + Len(needle) > Len(text) + 1 THEN FALSE
    ELSE IF \A i \in 1..Len(needle) : text[k + i - 1] = needle[i] THEN TRUE
    ELSE FindFrom(needle, text, k + 1)

\* step 1: the drug's name, case-folded, occurs in the title, case-folded; an
\* empty name never matches
MentionMatches(drug, mention) ==
    /\ drug.rec.name # <<>>
    /\ FindFrom(Lower(drug.rec.name), Lower(mention.rec.title), 1)

\* a date entry per matching mention
AddDateAlways(entries, date) == Append(entries, date)

\* step 3: a journal's date entries are distinct
AddDate(entries, date) ==
    IF date \in Range(entries) THEN entries ELSE Append(entries, date)

\* steps 2 and 3 for one matching mention
AddMention(res, mention, origin) ==
    LET m == mention.rec IN
    [drug |-> res.drug,
     journals |-> [j \in DOMAIN res.journals \cup {m.journal} |->
                      IF j = m.journal
                      THEN AddDate(IF j \in DOMAIN res.journals
                                   THEN res.journals[j] ELSE <<>>, m.date)
                      ELSE res.journals[j]],
     mentions |-> Append(res.mentions,
                         [title |-> m.title, date |-> m.date,
                          journal |-> m.journal, origin |-> origin])]

RECURSIVE Scan(_, _, _, _)
\* the mentions of one origin, in order, from position i on
Scan(res, elements, origin, i) ==
    IF i > Len(elements) THEN res
    ELSE Scan(IF MentionMatches(res.drug, elements[i])
              THEN AddMention(res, elements[i], origin) ELSE res,
              elements, origin, i + 1)

reconciliation_data(drug, elements_pubmed, elements_clinical_trials) ==
    Scan(Scan([drug |-> drug, journals |-> <<>>, mentions |-> <<>>],
              elements_pubmed, "pubmed", 1),
         elements_clinical_trials, "clinical_trials", 1)

(***************************************************************************)
(* Airflow: a task instance runs once all its upstream tasks have          *)
(* succeeded (trigger rule all_success); with "retries": 0 an exception    *)
(* raised by execute leaves it failed, and the tasks downstream of a       *)
(* failed task become upstream_failed.                                     *)
(***************************************************************************)
Runnable(t) ==
    /\ task[t] = "none"
    /\ \A u \in Upstream(t) : task[u] = "success"

\* start_point = DummyOperator(task_id="start_point")
StartPoint ==
    /\ Runnable(StartTaskId)
    /\ task' = [task EXCEPT ![StartTaskId] = "success"]
    /\ UNCHANGED <<silver_vars, fs, gcs, gold_vars>>

\* end_point = DummyOperator(task_id="end_point")
EndPoint ==
    /\ Runnable(EndTaskId)
    /\ task' = [task EXCEPT ![EndTaskId] = "success"]
    /\ UNCHANGED <<silver_vars, fs, gcs, gold_vars>>

UpstreamFailed(t) ==
    /\ task[t] = "none"
    /\ \E u \in Upstream(t) : task[u] \in {"failed", "upstream_failed"}
    /\ task' = [task EXCEPT ![t] = "upstream_failed"]
    /\ UNCHANGED <<silver_vars, fs, gcs, gold_vars>>

(***************************************************************************)
(* PreprossecingBronzeData                                                 *)
(***************************************************************************)
BronzeStart(p) ==
    /\ Runnable(BronzeTaskId(p))
    /\ task' = [task EXCEPT ![BronzeTaskId(p)] = "running"]
    /\ UNCHANGED <<silver_vars, fs, gcs, gold_vars>>

BronzeExecute(p) ==
    /\ task[BronzeTaskId(p)] = "running"
    /\ LET r == gcs_handler_blob(gcs, fs, BronzeBucket, p, BronzeGcsFileName(p)) IN
        /\ gcs' = r.gcs
        /\ task' = [task EXCEPT ![BronzeTaskId(p)] =
                        IF r.raised THEN "failed" ELSE "success"]
    /\ UNCHANGED <<silver_vars, fs, gold_vars>>

(***************************************************************************)
(* PreprossecingSilverData.execute, one action per statement               *)
(***************************************************************************)
error_path_local(p) == Path(p.parent \o "/error", p.stem \o "_error", "json")
valid_path_local(p) == Path(p.parent \o "/valid", p.stem \o "_valid", "json")

\* prefix_gcs_file_name = path_local_file.stem
error_path_gcs(p) == p.stem \o "/" \o Name(error_path_local(p))
valid_path_gcs(p) == p.stem \o "/" \o Name(valid_path_local(p))

\* the valid partition saved as the error file too
ErrorFileDataValid(p) == valid_items[p]

\* the data handed to the two save_file calls
ErrorFileData(p) == invalid_items[p]
ValidFileData(p) == valid_items[p]

SilverAt(p, at) == task[SilverTaskId(p)] = "running" /\ pc[p] = at

\* the exception leaves execute: the task instance fails
SilverRaise(p) ==
    /\ task' = [task EXCEPT ![SilverTaskId(p)] = "failed"]
    /\ pc' = [pc EXCEPT ![p] = "raised"]

SilverStart(p) ==
    /\ Runnable(SilverTaskId(p))
    /\ task' = [task EXCEPT ![SilverTaskId(p)] = "running"]
    /\ pc' = [pc EXCEPT ![p] = "read_file"]
    /\ UNCHANGED <<valid_items, invalid_items, fs, gcs, gold_vars>>

\* execute catching the fault and going on with empty partitions
SilverReadFaultAsEmpty(p) ==
    /\ valid_items' = [valid_items EXCEPT ![p] = <<>>]
    /\ invalid_items' = [invalid_items EXCEPT ![p] = <<>>]
    /\ pc' = [pc EXCEPT ![p] = "save_error"]
    /\ UNCHANGED <<task, fs, gcs, gold_vars>>

\* what execute does when read_file raises
SilverReadFault(p) ==
    /\ SilverRaise(p)
    /\ UNCHANGED <<valid_items, invalid_items, fs, gcs, gold_vars>>

SilverReadFile(p) ==
    /\ SilverAt(p, "read_file")
    /\ LET r == read_file(fs, p, p.stem) IN
        IF r.raised
        THEN SilverReadFault(p)
        ELSE /\ valid_items' = [valid_items EXCEPT ![p] = r.valid]
             /\ invalid_items' = [invalid_items EXCEPT ![p] = r.invalid]
             /\ pc' = [pc EXCEPT ![p] = "save_error"]
             /\ UNCHANGED <<task, fs, gcs, gold_vars>>

SilverSaveError(p) ==
    /\ SilverAt(p, "save_error")
    /\ fs' = save_file(fs, ErrorFileData(p), error_path_local(p))
    /\ pc' = [pc EXCEPT ![p] = "save_valid"]
    /\ UNCHANGED <<task, valid_items, invalid_items, gcs, gold_vars>>

SilverSaveValid(p) ==
    /\ SilverAt(p, "save_valid")
    /\ fs' = save_file(fs, ValidFileData(p), valid_path_local(p))
    /\ pc' = [pc EXCEPT ![p] = "push_error"]
    /\ UNCHANGED <<task, valid_items, invalid_items, gcs, gold_vars>>

SilverPush(p, local_file_name, gcs_file_name, then) ==
    LET r == gcs_handler_blob(gcs, fs, SilverBucket, local_file_name, gcs_file_name) IN
        /\ gcs' = r.gcs
        /\ IF r.raised THEN SilverRaise(p)
           ELSE pc' = [pc EXCEPT ![p] = then] /\ UNCHANGED task
        /\ UNCHANGED <<valid_items, invalid_items, fs, gold_vars>>

SilverPushError(p) ==
    /\ SilverAt(p, "push_error")
    /\ SilverPush(p, error_path_local(p), error_path_gcs(p), "push_valid")

SilverPushValid(p) ==
    /\ SilverAt(p, "push_valid")
    /\ SilverPush(p, valid_path_local(p), valid_path_gcs(p), "rmtree_error")

SilverRmtreeError(p) ==
    /\ SilverAt(p, "rmtree_error")
    /\ LET r == rmtree(fs, error_path_local(p).parent) IN
        /\ fs' = r.fs
        /\ IF r.raised THEN SilverRaise(p)
           ELSE pc' = [pc EXCEPT ![p] = "rmtree_valid"] /\ UNCHANGED task
    /\ UNCHANGED <<valid_items, invalid_items, gcs, gold_vars>>

SilverRmtreeValid(p) ==
    /\ SilverAt(p, "rmtree_valid")
    /\ LET r == rmtree(fs, valid_path_local(p).parent) IN
        /\ fs' = r.fs
        /\ IF r.raised THEN SilverRaise(p)
           ELSE /\ pc' = [pc EXCEPT ![p] = "returned"]
                /\ task' = [task EXCEPT ![SilverTaskId(p)] = "success"]
    /\ UNCHANGED <<valid_items, invalid_items, gcs, gold_vars>>

(***************************************************************************)
(* PreprossecingGoldData.execute, one action per statement; the            *)
(* Parallel(...)(...) call is the dispatch of its jobs, their completion   *)
(* and the retrieval of their results                                      *)
(***************************************************************************)
reconciliated_data_path ==
    Path("custom_operator/reconciliated", "drug_reconciliated", "json")

\* the two origins merged with the mentions of both kept once
PubmedValidDeduplicated(json_items, csv_items) ==
    json_items \o Select(csv_items,
                         {i \in 1..Len(csv_items) :
                             \A x \in Range(json_items) : x.rec # csv_items[i].rec}, 1)

\* pubmed_valid = pubmed_json_valid_items + pubmed_csv_valid_items
PubmedValid(json_items, csv_items) == json_items \o csv_items

\* the PubMed mentions bound as the clinical trials too
ElementsClinicalTrialsPubmed == pubmed_valid

\* the arguments bound by partial(utils.reconciliation_data, ...)
ElementsPubmed == pubmed_valid
ElementsClinicalTrials == clinical_trials_valid_items

partial_function_mapping_drug(drug) ==
    reconciliation_data(drug, ElementsPubmed, ElementsClinicalTrials)

\* the results in the order the jobs finished in
RetrieveAsCompleted(done, n) == [i \in 1..n |-> done[i].result]

\* Parallel returns the results in the order the jobs were submitted
Retrieve(done, n) ==
    [i \in 1..n |-> (CHOOSE c \in Range(done) : c.index = i).result]

\* the jobs handed to a worker and not finished
InFlight == {i \in 1..dispatched : \A c \in Range(completed) : c.index # i}

GoldAt(at) == task[GoldTaskId] = "running" /\ gpc = at

GoldRaise ==
    /\ task' = [task EXCEPT ![GoldTaskId] = "failed"]
    /\ gpc' = "raised"

GoldStart ==
    /\ Runnable(GoldTaskId)
    /\ task' = [task EXCEPT ![GoldTaskId] = "running"]
    /\ gpc' = "read_drug"
    /\ UNCHANGED <<silver_vars, fs, gcs, drug_valid_items, pubmed_json_valid_items,
                   pubmed_csv_valid_items, clinical_trials_valid_items, pubmed_valid,
                   n_jobs, dispatched, completed, drugs_reconciliated>>

GoldReadDrug ==
    /\ GoldAt("read_drug")
    /\ LET r == read_file(fs, path_drugs, path_drugs.stem) IN
        IF r.raised
        THEN GoldRaise /\ UNCHANGED drug_valid_items
        ELSE /\ drug_valid_items' = r.valid
             /\ gpc' = "read_pubmed_json"
             /\ UNCHANGED task
    /\ UNCHANGED <<silver_vars, fs, gcs, pubmed_json_valid_items,
                   pubmed_csv_valid_items, clinical_trials_valid_items, pubmed_valid,
                   n_jobs, dispatched, completed, drugs_reconciliated>>

GoldReadPubmedJson ==
    /\ GoldAt("read_pubmed_json")
    /\ LET r == read_file(fs, path_file_pubmed_json, path_file_pubmed_json.stem) IN
        IF r.raised
        THEN GoldRaise /\ UNCHANGED pubmed_json_valid_items
        ELSE /\ pubmed_json_valid_items' = r.valid
             /\ gpc' = "read_pubmed_csv"
             /\ UNCHANGED task
    /\ UNCHANGED <<silver_vars, fs, gcs, drug_valid_items,
                   pubmed_csv_valid_items, clinical_trials_valid_items, pubmed_valid,
                   n_jobs, dispatched, completed, drugs_reconciliated>>

GoldReadPubmedCsv ==
    /\ GoldAt("read_pubmed_csv")
    /\ LET r == read_file(fs, path_file_pubmed_csv, path_file_pubmed_csv.stem) IN
        IF r.raised
        THEN GoldRaise /\ UNCHANGED pubmed_csv_valid_items
        ELSE /\ pubmed_csv_valid_items' = r.valid
             /\ gpc' = "read_clinical_trials"
             /\ UNCHANGED task
    /\ UNCHANGED <<silver_vars, fs, gcs, drug_valid_items,
                   pubmed_json_valid_items, clinical_trials_valid_items, pubmed_valid,
                   n_jobs, dispatched, completed, drugs_reconciliated>>

GoldReadClinicalTrials ==
    /\ GoldAt("read_clinical_trials")
    /\ LET r == read_file(fs, path_file_clinical_trials, path_file_clinical_trials.stem) IN
        IF r.raised
        THEN GoldRaise /\ UNCHANGED clinical_trials_valid_items
        ELSE /\ clinical_trials_valid_items' = r.valid
             /\ gpc' = "pubmed_valid"
             /\ UNCHANGED task
    /\ UNCHANGED <<silver_vars, fs, gcs, drug_valid_items, pubmed_json_valid_items,
                   pubmed_csv_valid_items, pubmed_valid,
                   n_jobs, dispatched, completed, drugs_reconciliated>>

GoldPubmedValid ==
    /\ GoldAt("pubmed_valid")
    /\ pubmed_valid' = PubmedValid(pubmed_json_valid_items, pubmed_csv_valid_items)
    /\ gpc' = "parallel"
    /\ UNCHANGED <<task, silver_vars, fs, gcs, drug_valid_items, pubmed_json_valid_items,
                   pubmed_csv_valid_items, clinical_trials_valid_items,
                   n_jobs, dispatched, completed, drugs_reconciliated>>

\* Parallel(n_jobs=...): the code passes N_JOBS; the degree is drawn from
\* N_JOBS..MaxJobs, the contract being stated for every degree
GoldParallel ==
    /\ GoldAt("parallel")
    /\ \E n \in N_JOBS..MaxJobs : n_jobs' = n
    /\ dispatched' = 0
    /\ completed' = <<>>
    /\ gpc' = "jobs"
    /\ UNCHANGED <<task, silver_vars, fs, gcs, drug_valid_items, pubmed_json_valid_items,
                   pubmed_csv_valid_items, clinical_trials_valid_items, pubmed_valid,
                   drugs_reconciliated>>

\* the next drug of the generator is handed to a free worker
GoldDispatch ==
    /\ GoldAt("jobs")
    /\ dispatched < Len(drug_valid_items)
    /\ Cardinality(InFlight) < n_jobs
    /\ dispatched' = dispatched + 1
    /\ UNCHANGED <<task, silver_vars, fs, gcs, gpc, drug_valid_items,
                   pubmed_json_valid_items, pubmed_csv_valid_items,
                   clinical_trials_valid_items, pubmed_valid, n_jobs, completed,
                   drugs_reconciliated>>

\* a worker finishes its job
GoldComplete ==
    /\ GoldAt("jobs")
    /\ \E i \in InFlight :
        completed' = Append(completed,
            [index |-> i, result |-> partial_function_mapping_drug(drug_valid_items[i])])
    /\ UNCHANGED <<task, silver_vars, fs, gcs, gpc, drug_valid_items,
                   pubmed_json_valid_items, pubmed_csv_valid_items,
                   clinical_trials_valid_items, pubmed_valid, n_jobs, dispatched,
                   drugs_reconciliated>>

\* drugs_reconciliated = Parallel(...)(...): the call returns and its pool is
\* gone; `completed` is kept as the record of the order the jobs finished in
GoldRetrieve ==
    /\ GoldAt("jobs")
    /\ Len(completed) = Len(drug_valid_items)
    /\ drugs_reconciliated' = Retrieve(completed, Len(drug_valid_items))
    /\ n_jobs' = N_JOBS
    /\ dispatched' = 0
    /\ gpc' = "save_file"
    /\ UNCHANGED <<task, silver_vars, fs, gcs, drug_valid_items, pubmed_json_valid_items,
                   pubmed_csv_valid_items, clinical_trials_valid_items, pubmed_valid,
                   completed>>

GoldSaveFile ==
    /\ GoldAt("save_file")
    /\ fs' = save_file(fs, drugs_reconciliated, reconciliated_data_path)
    /\ gpc' = "push"
    /\ UNCHANGED <<task, silver_vars, gcs, drug_valid_items, pubmed_json_valid_items,
                   pubmed_csv_valid_items, clinical_trials_valid_items, pubmed_valid,
                   n_jobs, dispatched, completed, drugs_reconciliated>>

GoldPush ==
    /\ GoldAt("push")
    /\ LET r == gcs_handler_blob(gcs, fs, GoldBucket, reconciliated_data_path,
                                 Name(reconciliated_data_path)) IN
        /\ gcs' = r.gcs
        /\ IF r.raised THEN GoldRaise ELSE gpc' = "rmtree" /\ UNCHANGED task
    /\ UNCHANGED <<silver_vars, fs, drug_valid_items, pubmed_json_valid_items,
                   pubmed_csv_valid_items, clinical_trials_valid_items, pubmed_valid,
                   n_jobs, dispatched, completed, drugs_reconciliated>>

GoldRmtree ==
    /\ GoldAt("rmtree")
    /\ LET r == rmtree(fs, reconciliated_data_path.parent) IN
        /\ fs' = r.fs
        /\ IF r.raised THEN GoldRaise
           ELSE gpc' = "returned" /\ task' = [task EXCEPT ![GoldTaskId] = "success"]
    /\ UNCHANGED <<silver_vars, gcs, drug_valid_items, pubmed_json_valid_items,
                   pubmed_csv_valid_items, clinical_trials_valid_items, pubmed_valid,
                   n_jobs, dispatched, completed, drugs_reconciliated>>

(***************************************************************************)
(* Inputs                                                                  *)
(***************************************************************************)
\* rows of drugs.csv: two valid drugs and one with an empty name
DrugPool ==
    {DrugRow(Str(<<"1">>), Str(<<"a">>)),
     DrugRow(Str(<<"2">>), Str(<<"A", "b">>)),
     DrugRow(Str(<<"3">>), Str(<<>>))}

\* rows of a mention file: three valid mentions (two of one journal, on
\* different dates, one of another journal) and one with an empty id
MentionPool ==
    {MentionRow(Str(<<"1">>), Str(<<"a", "B">>), Str(<<"J1">>), Str(<<"d1">>)),
     MentionRow(Str(<<"2">>), Str(<<"b", "A">>), Str(<<"J1">>), Str(<<"d2">>)),
     MentionRow(Str(<<"3">>), Str(<<"A">>), Str(<<"J2">>), Str(<<"d1">>)),
     MentionRow(Str(<<>>), Str(<<"a", "B">>), Str(<<"J1">>), Str(<<"d1">>))}

\* every shape of row the validator tells apart
IdFields == {Str(<<"1">>), Str(<<>>), Missing}

DrugRows ==
    {DrugRow(i, n) : i \in IdFields, n \in {Str(<<"a">>), Str(<<>>), WrongType}}
        \cup {NotARecord}

MentionRows ==
    {MentionRow(i, t, j, Str(<<"d1">>)) :
        i \in IdFields, t \in {Str(<<"a">>), WrongType}, j \in {Str(<<"J1">>), Missing}}
        \cup {NotARecord}

RowsOfKind(p) == IF p.stem = "drugs" THEN DrugRows ELSE MentionRows

\* the rows each source file holds in a run of the whole DAG
SampleRows(p) ==
    IF p = path_drugs
    THEN <<DrugRow(Str(<<"1">>), Str(<<"a">>)), DrugRow(Str(<<"3">>), Str(<<>>))>>
    ELSE IF p = path_file_pubmed_csv
    THEN <<MentionRow(Str(<<"1">>), Str(<<"a", "B">>), Str(<<"J1">>), Str(<<"d1">>)),
           MentionRow(Str(<<>>), Str(<<"a", "B">>), Str(<<"J1">>), Str(<<"d1">>))>>
    ELSE IF p = path_file_pubmed_json
    THEN <<MentionRow(Str(<<"2">>), Str(<<"b", "A">>), Str(<<"J1">>), Str(<<"d2">>))>>
    ELSE <<MentionRow(Str(<<"3">>), Str(<<"A">>), Str(<<"J2">>), Str(<<"d1">>))>>

(***************************************************************************)
(* Specifications                                                          *)
(***************************************************************************)
InitDirs == {"file", "custom_operator"}

InitLocals ==
    /\ pc = [p \in all_paths_local |-> "idle"]
    /\ valid_items = [p \in all_paths_local |-> <<>>]
    /\ invalid_items = [p \in all_paths_local |-> <<>>]
    /\ gpc = "idle"
    /\ drug_valid_items = <<>>
    /\ pubmed_json_valid_items = <<>>
    /\ pubmed_csv_valid_items = <<>>
    /\ clinical_trials_valid_items = <<>>
    /\ pubmed_valid = <<>>
    /\ n_jobs = N_JOBS
    /\ dispatched = 0
    /\ completed = <<>>
    /\ drugs_reconciliated = <<>>

\* a run of the DAG: each source file holds its rows or cannot be parsed
Init ==
    /\ \E content \in [all_paths_local -> {TRUE, FALSE}] :
        fs = [dirs |-> InitDirs,
              files |-> [p \in all_paths_local |->
                            IF content[p] THEN Rows(SampleRows(p)) ELSE Malformed]]
    /\ task = [t \in TaskIds |-> "none"]
    /\ gcs = <<>>
    /\ InitLocals

Next ==
    \/ StartPoint
    \/ EndPoint
    \/ \E t \in TaskIds : UpstreamFailed(t)
    \/ \E p \in all_paths_local : BronzeStart(p)
    \/ \E p \in all_paths_local : BronzeExecute(p)
    \/ \E p \in all_paths_local : SilverStart(p)
    \/ \E p \in all_paths_local : SilverReadFile(p)
    \/ \E p \in all_paths_local : SilverSaveError(p)
    \/ \E p \in all_paths_local : SilverSaveValid(p)
    \/ \E p \in all_paths_local : SilverPushError(p)
    \/ \E p \in all_paths_local : SilverPushValid(p)
    \/ \E p \in all_paths_local : SilverRmtreeError(p)
    \/ \E p \in all_paths_local : SilverRmtreeValid(p)
    \/ GoldStart
    \/ GoldReadDrug
    \/ GoldReadPubmedJson
    \/ GoldReadPubmedCsv
    \/ GoldReadClinicalTrials
    \/ GoldPubmedValid
    \/ GoldParallel
    \/ GoldDispatch
    \/ GoldComplete
    \/ GoldRetrieve
    \/ GoldSaveFile
    \/ GoldPush
    \/ GoldRmtree

Spec == Init /\ [][Next]_vars

\* a run of one silver task: its source file holds any rows of its kind, or
\* cannot be parsed; its bronze task has pushed the file, the other source
\* files' bronze tasks are still to run
InitSilver ==
    /\ \E p \in all_paths_local :
       \E content \in {Malformed} \cup {Rows(rs) : rs \in SeqsUpTo(RowsOfKind(p), MaxRecords)} :
        /\ fs = [dirs |-> InitDirs,
                 files |-> [q \in all_paths_local |->
                               IF q = p THEN content ELSE Rows(SampleRows(q))]]
        /\ task = [t \in TaskIds |->
                      IF t \in {StartTaskId, BronzeTaskId(p)} THEN "success" ELSE "none"]
        /\ gcs = [k \in {[bucket |-> BronzeBucket, name |-> BronzeGcsFileName(p)]} |->
                      content]
    /\ InitLocals

NextSilver ==
    \/ \E p \in all_paths_local : SilverStart(p)
    \/ \E p \in all_paths_local : SilverReadFile(p)
    \/ \E p \in all_paths_local : SilverSaveError(p)
    \/ \E p \in all_paths_local : SilverSaveValid(p)
    \/ \E p \in all_paths_local : SilverPushError(p)
    \/ \E p \in all_paths_local : SilverPushValid(p)
    \/ \E p \in all_paths_local : SilverRmtreeError(p)
    \/ \E p \in all_paths_local : SilverRmtreeValid(p)

SpecSilver == InitSilver /\ [][NextSilver]_vars

\* the blobs in the buckets once every bronze and silver task has succeeded,
\* `last` being the pubmed source file whose silver task pushed last
BlobsBeforeGold(disk, last) ==
    LET writers == {p \in all_paths_local : p.stem # "pubmed" \/ p = last}
        bronze == {[bucket |-> BronzeBucket, name |-> BronzeGcsFileName(p)] :
                      p \in all_paths_local}
        errors == {[bucket |-> SilverBucket, name |-> error_path_gcs(p)] : p \in writers}
        valids == {[bucket |-> SilverBucket, name |-> valid_path_gcs(p)] : p \in writers}
    IN  [k \in bronze \cup errors \cup valids |->
            IF k \in bronze
            THEN disk.files[CHOOSE p \in all_paths_local : BronzeGcsFileName(p) = k.name]
            ELSE IF k \in errors
            THEN LET p == CHOOSE q \in writers : error_path_gcs(q) = k.name
                 IN  read_file(disk, p, p.stem).invalid
            ELSE LET p == CHOOSE q \in writers : valid_path_gcs(q) = k.name
                 IN  read_file(disk, p, p.stem).valid]

\* a run of the gold task: every bronze and silver task has succeeded (the
\* silver task of pubmed.json last), the source files hold any rows of the pools
InitGold ==
    /\ \E drugs \in SeqsUpTo(DrugPool, MaxDrugs) :
       \E json \in SeqsUpTo(MentionPool, MaxMentions) :
       \E csv \in SeqsUpTo(MentionPool, MaxMentions - Len(json)) :
       \E trials \in SeqsUpTo(MentionPool, MaxMentions - Len(json) - Len(csv)) :
        /\ fs = [dirs |-> InitDirs,
                 files |-> [p \in all_paths_local |->
                               IF p = path_drugs THEN Rows(drugs)
                               ELSE IF p = path_file_pubmed_json THEN Rows(json)
                               ELSE IF p = path_file_pubmed_csv THEN Rows(csv)
                               ELSE Rows(trials)]]
        /\ gcs = BlobsBeforeGold(fs, path_file_pubmed_json)
    /\ task = [t \in TaskIds |-> IF t \in {GoldTaskId, EndTaskId} THEN "none" ELSE "success"]
    /\ pc = [p \in all_paths_local |-> "returned"]
    /\ valid_items = [p \in all_paths_local |-> read_file(fs, p, p.stem).valid]
    /\ invalid_items = [p \in all_paths_local |-> read_file(fs, p, p.stem).invalid]
    /\ gpc = "idle"
    /\ drug_valid_items = <<>>
    /\ pubmed_json_valid_items = <<>>
    /\ pubmed_csv_valid_items = <<>>
    /\ clinical_trials_valid_items = <<>>
    /\ pubmed_valid = <<>>
    /\ n_jobs = N_JOBS
    /\ dispatched = 0
    /\ completed = <<>>
    /\ drugs_reconciliated = <<>>

NextGold ==
    \/ GoldStart
    \/ GoldReadDrug
    \/ GoldReadPubmedJson
    \/ GoldReadPubmedCsv
    \/ GoldReadClinicalTrials
    \/ GoldPubmedValid
    \/ GoldParallel
    \/ GoldDispatch
    \/ GoldComplete
    \/ GoldRetrieve
    \/ GoldSaveFile
    \/ GoldPush
    \/ GoldRmtree
    \/ EndPoint

SpecGold == InitGold /\ [][NextGold]_vars

(***************************************************************************)
(* Properties of a run of the DAG (Spec)                                   *)
(***************************************************************************)
Started(t) == task[t] \in {"running", "success", "failed"}

Parseable(p) == fs.files[p].parseable

AllSilverSucceeded == \A p \in all_paths_local : task[SilverTaskId(p)] = "success"

SilverBlobs == {k \in DOMAIN gcs : k.bucket = SilverBucket}

\* C8: a silver task starts only after the bronze task of its source file has
\* succeeded, the gold task only after all four silver tasks have, and
\* end_point only after the gold task has.
C8_StagesOrdered ==
    /\ \A p \in all_paths_local :
        Started(SilverTaskId(p)) => task[BronzeTaskId(p)] = "success"
    /\ Started(GoldTaskId) => AllSilverSucceeded
    /\ Started(EndTaskId) => task[GoldTaskId] = "success"

C8_Witness ==
    /\ task[EndTaskId] = "success"
    /\ task[GoldTaskId] = "success"
    /\ AllSilverSucceeded

\* C7: the silver task of a source file that cannot be parsed never gets
\* past read_file: it ends failed, holds no partition, saves and pushes
\* nothing; no file or blob of its names exists unless the task of another
\* source file of the same stem wrote it.
C7_ParseFaultAborts ==
    \A p \in all_paths_local :
        ~Parseable(p) =>
            /\ pc[p] \in {"idle", "read_file", "raised"}
            /\ task[SilverTaskId(p)] \in {"none", "running", "failed", "upstream_failed"}
            /\ (pc[p] = "raised" <=> task[SilverTaskId(p)] = "failed")
            /\ valid_items[p] = <<>> /\ invalid_items[p] = <<>>
            /\ (\A q \in all_paths_local : q.stem = p.stem => ~Parseable(q)) =>
                /\ error_path_local(p) \notin DOMAIN fs.files
                /\ valid_path_local(p) \notin DOMAIN fs.files
                /\ [bucket |-> SilverBucket, name |-> error_path_gcs(p)] \notin DOMAIN gcs
                /\ [bucket |-> SilverBucket, name |-> valid_path_gcs(p)] \notin DOMAIN gcs

C7_Witness ==
    \E p \in all_paths_local :
        /\ ~Parseable(p)
        /\ task[SilverTaskId(p)] = "failed"
        /\ task[GoldTaskId] = "upstream_failed"
        /\ \E q \in all_paths_local : task[SilverTaskId(q)] = "success"

\* C9: when a silver task pushes a file the file exists, and when it removes
\* a directory the directory exists.
C9_PushedAndRemovedExist ==
    \A p \in all_paths_local :
        /\ SilverAt(p, "push_error") => error_path_local(p) \in DOMAIN fs.files
        /\ SilverAt(p, "push_valid") => valid_path_local(p) \in DOMAIN fs.files
        /\ SilverAt(p, "rmtree_error") => error_path_local(p).parent \in fs.dirs
        /\ SilverAt(p, "rmtree_valid") => valid_path_local(p).parent \in fs.dirs

\* C6: in a run whose source files can all be parsed, no task fails or is
\* skipped for a failed upstream task.
C6_NoTaskFails ==
    (\A p \in all_paths_local : Parseable(p)) =>
        \A t \in TaskIds : task[t] \notin {"failed", "upstream_failed"}

\* C10: once all silver tasks have succeeded, the silver bucket holds one
\* valid and one error blob per source file, each the partition of that file.
C10_OneBlobPerSourceFile ==
    AllSilverSucceeded =>
        /\ Cardinality(SilverBlobs) = 2 * Cardinality(all_paths_local)
        /\ \A p \in all_paths_local :
            /\ gcs[[bucket |-> SilverBucket, name |-> valid_path_gcs(p)]] = valid_items[p]
            /\ gcs[[bucket |-> SilverBucket, name |-> error_path_gcs(p)]] = invalid_items[p]

(***************************************************************************)
(* Properties of a silver run (SpecSilver)                                 *)
(***************************************************************************)
Positions(items) == {items[i].pos : i \in 1..Len(items)}

AfterReadFile(p) ==
    pc[p] \in {"save_error", "save_valid", "push_error", "push_valid",
               "rmtree_error", "rmtree_valid", "returned"}

\* the valid and the invalid items are a partition of the rows of p, by position
IsPartition(p) ==
    LET n == Len(fs.files[p].rows) IN
    /\ Len(valid_items[p]) + Len(invalid_items[p]) = n
    /\ Cardinality(Positions(valid_items[p])) = Len(valid_items[p])
    /\ Cardinality(Positions(invalid_items[p])) = Len(invalid_items[p])
    /\ Positions(valid_items[p]) \cap Positions(invalid_items[p]) = {}
    /\ Positions(valid_items[p]) \cup Positions(invalid_items[p]) = 1..n
    /\ \A x \in Range(invalid_items[p]) : x.rec = fs.files[p].rows[x.pos]

\* the step of p's silver task from statement `at` to statement `then`
SilverStep(p, at, then) == SilverAt(p, at) /\ pc'[p] = then

\* C3: the valid and invalid items read_file returns are disjoint and cover
\* the rows of the file (the lengths add up, no row is in both), and the two
\* save_file calls of execute write exactly the invalid items to the error
\* file and the valid items to the valid file.
C3_PartitionPersisted ==
    /\ [](\A p \in all_paths_local : AfterReadFile(p) => IsPartition(p))
    /\ [][\A p \in all_paths_local :
            /\ SilverStep(p, "save_error", "save_valid") =>
                /\ error_path_local(p) \in DOMAIN fs'.files
                /\ fs'.files[error_path_local(p)] = invalid_items[p]
            /\ SilverStep(p, "save_valid", "push_error") =>
                /\ valid_path_local(p) \in DOMAIN fs'.files
                /\ fs'.files[valid_path_local(p)] = valid_items[p]]_vars

C3_Witness ==
    \E p \in all_paths_local :
        /\ pc[p] = "push_error"
        /\ Len(valid_items[p]) = 1 /\ Len(invalid_items[p]) = 1
        /\ valid_items[p][1].pos = 2
        /\ fs.files[error_path_local(p)] = invalid_items[p]
        /\ fs.files[valid_path_local(p)] = valid_items[p]

(***************************************************************************)
(* Properties of a gold run (SpecGold)                                     *)
(***************************************************************************)
AfterPubmedValid ==
    gpc \in {"parallel", "jobs", "save_file", "push", "rmtree", "returned"}

AfterParallel == gpc \in {"save_file", "push", "rmtree", "returned"}

\* the valid rows of a mention file, in the order of the file
ValidRowsOf(p) ==
    LET rows == fs.files[p].rows
        at == {i \in 1..Len(rows) : IsValid(rows[i], p.stem)}
        kept == Select([i \in 1..Len(rows) |-> i], at, 1)
    IN  [k \in 1..Len(kept) |-> Item(kept[k], Typed(rows[kept[k]], p.stem))]

\* C1: the reconciled output has one result per valid drug, result i being
\* the result of drug i, whatever the degree of parallelism and the order the
\* jobs finish in; that sequence is what execute saves.
C1_OneResultPerDrugInOrder ==
    /\ AfterParallel =>
        /\ Len(drugs_reconciliated) = Len(drug_valid_items)
        /\ \A i \in 1..Len(drug_valid_items) :
            drugs_reconciliated[i].drug = drug_valid_items[i]
    /\ GoldAt("push") => fs.files[reconciliated_data_path] = drugs_reconciliated

C1_Witness ==
    /\ GoldAt("push")
    /\ Len(drug_valid_items) = 2
    /\ completed[1].index = 2
    /\ drugs_reconciliated[1].drug.rec.name # drugs_reconciliated[2].drug.rec.name
    /\ drugs_reconciliated[2].mentions = <<>>
    /\ drugs_reconciliated[1].mentions # <<>>

\* Python's `needle in text`: needle is a slice of text
Occurs(needle, text) ==
    \E a \in 1..(Len(text) + 1) : \E b \in 0..Len(text) : SubSeq(text, a, b) = needle

Folded(drug, mention) == Occurs(Lower(drug.rec.name), Lower(mention.rec.title))

Entry(mention, origin) ==
    [title |-> mention.rec.title, date |-> mention.rec.date,
     journal |-> mention.rec.journal, origin |-> origin]

\* C2: a PubMed or clinical-trials mention is in a drug's result iff the
\* drug's name, case-folded, occurs in the mention's title, case-folded; the
\* result holds as many mentions as match.
C2_MatchIffSubstring ==
    AfterParallel =>
        \A i \in 1..Len(drugs_reconciliated) :
            LET d == drug_valid_items[i]
                r == drugs_reconciliated[i]
            IN  /\ \A m \in Range(pubmed_valid) :
                    Entry(m, "pubmed") \in Range(r.mentions) <=> Folded(d, m)
                /\ \A m \in Range(clinical_trials_valid_items) :
                    Entry(m, "clinical_trials") \in Range(r.mentions) <=> Folded(d, m)
                /\ Len(r.mentions) =
                    Cardinality({k \in 1..Len(pubmed_valid) : Folded(d, pubmed_valid[k])})
                    + Cardinality({k \in 1..Len(clinical_trials_valid_items) :
                                      Folded(d, clinical_trials_valid_items[k])})

C2_Witness ==
    /\ AfterParallel
    /\ \E i \in 1..Len(drugs_reconciliated) :
        LET d == drug_valid_items[i]
            r == drugs_reconciliated[i]
        IN  /\ \E m \in Range(pubmed_valid) :
                /\ Entry(m, "pubmed") \in Range(r.mentions)
                /\ ~Occurs(d.rec.name, m.rec.title)
            /\ \E m \in Range(clinical_trials_valid_items) :
                /\ Entry(m, "clinical_trials") \notin Range(r.mentions)
                /\ ~Folded(d, m)

\* C4: the PubMed mentions the drugs are reconciled against are the valid
\* rows of pubmed.json followed by the valid rows of pubmed.csv, a mention of
\* both files twice, an invalid row of either never.
C4_PubmedInputIsJsonThenCsv ==
    AfterPubmedValid =>
        /\ ElementsPubmed = ValidRowsOf(path_file_pubmed_json)
                                \o ValidRowsOf(path_file_pubmed_csv)
        /\ \A m \in Range(ElementsPubmed) : m.rec.id # <<>>

C4_Witness ==
    /\ AfterParallel
    /\ Len(fs.files[path_file_pubmed_json].rows) = 1
    /\ Len(fs.files[path_file_pubmed_csv].rows) = 1
    /\ Len(ElementsPubmed) = 2
    /\ ElementsPubmed[1] = ElementsPubmed[2]

\* C5: in a drug's result each journal of a matching mention has the dates of
\* its matching mentions as its entries, each date once.
C5_DistinctDatesPerJournal ==
    AfterParallel =>
        \A i \in 1..Len(drugs_reconciliated) :
            LET r == drugs_reconciliated[i] IN
            /\ DOMAIN r.journals = {e.journal : e \in Range(r.mentions)}
            /\ \A j \in DOMAIN r.journals :
                /\ Range(r.journals[j]) =
                    {e.date : e \in {x \in Range(r.mentions) : x.journal = j}}
                /\ Cardinality(Range(r.journals[j])) = Len(r.journals[j])

C5_Witness ==
    /\ AfterParallel
    /\ \E i \in 1..Len(drugs_reconciliated) :
        LET r == drugs_reconciliated[i] IN
        /\ Len(r.mentions) = 2
        /\ r.mentions[1].journal = r.mentions[2].journal
        /\ r.mentions[1].date = r.mentions[2].date
        /\ Len(r.journals[r.mentions[1].journal]) = 1

====
